---- MODULE Spec2Model ----
\* zcount: count the zero bytes of files or of stdin (src/zcount.c).
\*
\* The program is one argp callback, parse_opt, driven by argp_parse from main,
\* and one counting loop, countZB.  The model has
\*   - the struct arguments (verbosity, upper, lower, retcode) as the variable
\*     arguments, garbage until the ARGP_KEY_INIT event;
\*   - one action per key that parse_opt handles, each the whole case of the
\*     switch, the call of countZB included;
\*   - the loop of countZB as the operator ZBIter (one evaluation of the while
\*     condition and body), iterated by countZB for the handlers and stepped
\*     one iteration at a time by the specification SpecZB;
\*   - history variables for what the handlers do to the outside: lines
\*     written to stdout and stderr, sources scanned, FILE handles open, the
\*     exit code;
\*   - next to the program, the variant that runs the sanity check on lower
\*     once, when option parsing ends (alt), fed the same events.
EXTENDS Integers, Sequences, FiniteSets, TLC

\* ---------------------------------------------------------------- bounds
\* The widths of int and unsigned long are scaled down so that saturation is
\* reached: INT_MAX stands for 2^31 - 1 and ULONG_MAX for 2^64 - 1.
INT_MAX == 2
ULONG_MAX == 2
\* Longest byte stream of a source, and most positional arguments of a run.
MaxLen == 3
MaxArgs == 3

INT_MIN == -INT_MAX - 1
\* getc's end-of-file value.
EOF == -1

\* Byte values a stream is made of: the zero byte, an ordinary byte, a byte
\* with the top bit set, and 0xFF.
Bytes == {0, 1, 128, 255}


RECURSIVE SeqsUpTo(_, _)
SeqsUpTo(S, n) ==
    IF n = 0 THEN {<<>>}
    ELSE LET shorter == SeqsUpTo(S, n - 1)
         IN shorter \cup {Append(s, b) : s \in {t \in shorter : Len(t) = n - 1}, b \in S}

Streams == SeqsUpTo(Bytes, MaxLen)

\* Contents of the sources of a run: empty, without a zero byte, with one, two
\* and three zero bytes, and with 0xFF before a zero byte.
Files ==
    { <<>>, <<1>>, <<0>>, <<0, 1, 0>>, <<0, 0, 0>>, <<255, 0>> }

\* Option values given to -u / -l, as character sequences.
OptArgs ==
    { <<>>, <<"0">>, <<"1">>, <<"2">>, <<"9">>,
      <<"-", "1">>, <<" ", "1">>, <<"0", "x", "2">>, <<"0", "2">>,
      <<"1", "a">>, <<"a">>, <<"-">>, <<"0", "x">>, <<"0", "8">> }

VARIABLES
    char_signed,   \* the build: whether plain char is signed
    pc,            \* where argp_parse / main / countZB stands
    arguments,     \* struct arguments
    nargs,         \* argp's count of positional arguments handled
    key,           \* the key of the last parse_opt call
    optarg,        \* the value of the last -u / -l option
    src,           \* what the last call read: "file", "stdin", "nofile", "none"
    zeros,         \* parse_opt's local zeros in the last call
    out,           \* lines the last call wrote to stdout
    err,           \* lines the last call wrote to stderr
    stdout_used,   \* whether the run has written to stdout
    stderr_used,   \* whether the run has written to stderr
    nscanned,      \* sources countZB returned from, which were then classified
    stdin_scans,   \* times countZB was called on stdin
    corrupted,     \* classified sources with zeros >= lower (after the clamp)
    flagged,       \* classified sources with zeros > 0
    clamped,       \* whether the last call lowered lower to upper
    stdin_data,    \* the contents of stdin, once it was read
    argp_err,      \* the error argp_parse returns: "0" or "EINVAL"
    exitcode,      \* value returned by main
    nopen,         \* FILE handles fopen returned that were not yet closed
    open_peak,     \* the most handles open at once during the last call
    alt,           \* the program that clamps once, when option parsing ends:
                   \* its struct and the lines its last call wrote
    fp,            \* SpecZB: the stream countZB reads
    zb             \* SpecZB: countZB's frame [cap, pos, zeros, upper, ret]

vars == << char_signed, pc, arguments, nargs, key, optarg, src, zeros, out, err,
           stdout_used, stderr_used, nscanned, stdin_scans, corrupted, flagged,
           clamped, stdin_data, argp_err, exitcode, nopen, open_peak, alt,
           fp, zb >>

Min(a, b) == IF a < b THEN a ELSE b

\* ------------------------------------------------------------- countZB
\* getc(fp): the next byte as an int 0..255, or EOF at end of stream.
getc(stream, pos) == IF pos < Len(stream) THEN stream[pos + 1] ELSE EOF

\* c = getc(fp) with char c: the int is converted to plain char.
ToChar(i, signed) ==
    IF signed THEN (IF i >= 128 THEN i - 256 ELSE i)
    ELSE (i + 256) % 256

\* countZB's entry: zeros = 0; if (upper == 0) upper = ULONG_MAX.
ZBEnter(upper) ==
    [cap |-> upper, pos |-> 0, zeros |-> 0,
     upper |-> IF upper = 0 THEN ULONG_MAX ELSE upper, ret |-> FALSE]

\* ZBIter with the test of the cap left out of the while condition.
ZBIter_NoCap(stream, f, signed) ==
    LET i == getc(stream, f.pos)
        c == ToChar(i, signed)
        pos1 == IF i = EOF THEN f.pos ELSE f.pos + 1
    IN IF c # EOF /\ f.zeros < ULONG_MAX
       THEN [f EXCEPT !.pos = pos1,
                      !.zeros = IF c = 0 THEN f.zeros + 1 ELSE f.zeros]
       ELSE [f EXCEPT !.pos = pos1, !.ret = TRUE]

\* ZBIter with zeros <= upper for zeros < upper in the while condition.
ZBIter_CapInclusive(stream, f, signed) ==
    LET i == getc(stream, f.pos)
        c == ToChar(i, signed)
        pos1 == IF i = EOF THEN f.pos ELSE f.pos + 1
    IN IF c # EOF /\ f.zeros <= f.upper /\ f.zeros < ULONG_MAX
       THEN [f EXCEPT !.pos = pos1,
                      !.zeros = IF c = 0 THEN f.zeros + 1 ELSE f.zeros]
       ELSE [f EXCEPT !.pos = pos1, !.ret = TRUE]

\* One evaluation of the while condition, and of the body when it holds.
ZBIter(stream, f, signed) ==
    LET i == getc(stream, f.pos)
        c == ToChar(i, signed)
        pos1 == IF i = EOF THEN f.pos ELSE f.pos + 1
    IN IF c # EOF /\ f.zeros < f.upper /\ f.zeros < ULONG_MAX
       THEN [f EXCEPT !.pos = pos1,
                      !.zeros = IF c = 0 THEN f.zeros + 1 ELSE f.zeros]
       ELSE [f EXCEPT !.pos = pos1, !.ret = TRUE]

\* The loop run to its end: the frame at return, or hang when an iteration
\* changes nothing (the loop then never ends).
RECURSIVE ZBRun(_, _, _)
ZBRun(stream, f, signed) ==
    IF f.ret THEN [zeros |-> f.zeros, pos |-> f.pos, hang |-> FALSE]
    ELSE LET g == ZBIter(stream, f, signed)
         IN IF g = f THEN [zeros |-> f.zeros, pos |-> f.pos, hang |-> TRUE]
            ELSE ZBRun(stream, g, signed)

countZB(stream, upper, signed) == ZBRun(stream, ZBEnter(upper), signed)

\* ------------------------------------------------------------- strtoul
IsSpace(ch) == ch = " "

DigitVal(ch) ==
    CASE ch = "0" -> 0 [] ch = "1" -> 1 [] ch = "2" -> 2 [] ch = "3" -> 3
      [] ch = "4" -> 4 [] ch = "5" -> 5 [] ch = "6" -> 6 [] ch = "7" -> 7
      [] ch = "8" -> 8 [] ch = "9" -> 9 [] ch = "a" -> 10 [] ch = "b" -> 11
      [] ch = "c" -> 12 [] ch = "d" -> 13 [] ch = "e" -> 14 [] ch = "f" -> 15
      [] OTHER -> 99

RECURSIVE SkipSpace(_)
SkipSpace(s) == IF s # <<>> /\ IsSpace(Head(s)) THEN SkipSpace(Tail(s)) ELSE s

\* The digits of the subject sequence: the value so far, whether it
\* overflowed unsigned long, and what follows the last digit.
RECURSIVE Digits(_, _, _, _)
Digits(s, base, acc, ovf) ==
    IF s # <<>> /\ DigitVal(Head(s)) < base
    THEN LET v == acc * base + DigitVal(Head(s))
         IN IF ovf \/ v > ULONG_MAX
            THEN Digits(Tail(s), base, ULONG_MAX, TRUE)
            ELSE Digits(Tail(s), base, v, FALSE)
    ELSE [acc |-> acc, ovf |-> ovf, rest |-> s]

\* strtoul(nptr, tailptr, 0): white space, an optional sign, an optional 0x or
\* 0 prefix, digits.  val is the result, tail what *tailptr points at.
strtoul(nptr) ==
    LET s0 == SkipSpace(nptr)
        neg == s0 # <<>> /\ Head(s0) = "-"
        s1 == IF s0 # <<>> /\ Head(s0) \in {"-", "+"} THEN Tail(s0) ELSE s0
        hex == Len(s1) >= 2 /\ s1[1] = "0" /\ s1[2] \in {"x", "X"}
        base == IF hex THEN 16 ELSE IF s1 # <<>> /\ Head(s1) = "0" THEN 8 ELSE 10
        s2 == IF hex THEN Tail(Tail(s1)) ELSE s1
        d == Digits(s2, base, 0, FALSE)
    IN IF Len(d.rest) = Len(s2)
       THEN IF hex THEN [val |-> 0, tail |-> Tail(s1)]
            ELSE [val |-> 0, tail |-> nptr]
       ELSE [val |-> IF d.ovf THEN ULONG_MAX
                     ELSE IF neg THEN (ULONG_MAX + 1 - d.acc) % (ULONG_MAX + 1)
                     ELSE d.acc,
             tail |-> d.rest]

\* ------------------------------------------------------------ parse_opt
\* x++ on an int.
IntInc(x) == IF x = INT_MAX THEN INT_MIN ELSE x + 1

\* What the struct holds before ARGP_KEY_INIT: main does not initialise it.
Garbage ==
    [verbosity : {INT_MIN, 0, INT_MAX}, upper : {0, ULONG_MAX},
     lower : {0, ULONG_MAX}, retcode : {INT_MIN, 0, INT_MAX}]

\* case ARGP_KEY_INIT
Defaults == [verbosity |-> 0, upper |-> 0, lower |-> 1, retcode |-> 0]

\* case 'v'
IncVerbosity(a) ==
    IF a.verbosity < INT_MAX THEN [a EXCEPT !.verbosity = IntInc(a.verbosity)]
    ELSE a

\* case 'u' assigning to lower, as case 'l' does.
SetUpper_Lower(a, s) == [a EXCEPT !.lower = strtoul(s).val]

\* case 'u': the assignment, then the test of **tailptr
SetUpper(a, s) == [a EXCEPT !.upper = strtoul(s).val]

\* case 'l'
SetLower(a, s) == [a EXCEPT !.lower = strtoul(s).val]

\* **tailptr != '\0'
TailLeft(s) == strtoul(s).tail # <<>>

\* case ARGP_KEY_ARG, after fclose: the sanity check, the count of suspicious
\* files, the lines written.
\* ArgClamp with the sanity check left out.
ArgClamp_None(a) == a

\* ArgClamp raising upper to lower instead of lowering lower.
ArgClamp_RaisesUpper(a) ==
    IF a.lower > a.upper /\ a.upper # 0 THEN [a EXCEPT !.upper = a.lower] ELSE a

\* ArgClamp resetting lower to 0 where it is to become upper.
ArgClamp_ToZero(a) ==
    IF a.lower > a.upper /\ a.upper # 0 THEN [a EXCEPT !.lower = 0] ELSE a

ArgClamp(a) ==
    IF a.lower > a.upper /\ a.upper # 0 THEN [a EXCEPT !.lower = a.upper] ELSE a

\* ArgCount without the test against INT_MAX.
ArgCount_NoSat(a, z) ==
    IF z # 0 THEN [a EXCEPT !.retcode = IntInc(a.retcode)] ELSE a

\* ArgCount counting the sources at or above the lower threshold.
ArgCount_AtLower(a, z) ==
    IF z >= a.lower /\ a.retcode < INT_MAX
    THEN [a EXCEPT !.retcode = IntInc(a.retcode)]
    ELSE a

ArgCount(a, z) ==
    IF z # 0 /\ a.retcode < INT_MAX THEN [a EXCEPT !.retcode = IntInc(a.retcode)]
    ELSE a

\* ArgErrLines with verbosity >= 1 for verbosity == 1 in the first test.
ArgErrLines_Ge1(a, z) ==
    (IF a.verbosity >= 1 /\ z >= a.lower THEN 1 ELSE 0)
    + (IF a.verbosity >= 2 /\ ~(z < a.lower) THEN 1 ELSE 0)

ArgErrLines(a, z) ==
    (IF a.verbosity = 1 /\ z >= a.lower THEN 1 ELSE 0)
    + (IF a.verbosity >= 2 /\ ~(z < a.lower) THEN 1 ELSE 0)

ArgOutLines(a, z) == IF a.verbosity >= 2 /\ z < a.lower THEN 1 ELSE 0

\* fp = fopen(arg, "r") returning a stream: one more handle is open.
Fopen(n) == n + 1

\* fclose left out: the handle stays open.
Fclose_Leak(n) == n

\* fclose(fp), right after countZB returns.
Fclose(n) == n - 1

\* case ARGP_KEY_ARG, fopen failed: the else branch counts the file as
\* suspicious.
ArgOpenFailed_Counted(a) == [a EXCEPT !.retcode = IntInc(a.retcode)]

\* case ARGP_KEY_ARG, fopen failed: the else branch only writes the
\* diagnostic; the struct is left as it is.
ArgOpenFailed(a) == a

\* ARGP_KEY_NO_ARGS sent when no file could be read.
NoArgsSeen_NoneRead == nscanned = 0

\* When argp_parse sends ARGP_KEY_NO_ARGS: no positional argument was handled.
NoArgsSeen == nargs = 0

\* case ARGP_KEY_NO_ARGS: the same three steps, written out again for stdin.
NoArgsClamp(a) ==
    IF a.lower > a.upper /\ a.upper # 0 THEN [a EXCEPT !.lower = a.upper] ELSE a

NoArgsCount(a, z) ==
    IF z # 0 /\ a.retcode < INT_MAX THEN [a EXCEPT !.retcode = IntInc(a.retcode)]
    ELSE a

\* NoArgsErrLines with > for >= in the test at verbosity 1.
NoArgsErrLines_Gt(a, z) ==
    (IF a.verbosity = 1 /\ z > a.lower THEN 1 ELSE 0)
    + (IF a.verbosity >= 2 /\ ~(z < a.lower) THEN 1 ELSE 0)

NoArgsErrLines(a, z) ==
    (IF a.verbosity = 1 /\ z >= a.lower THEN 1 ELSE 0)
    + (IF a.verbosity >= 2 /\ ~(z < a.lower) THEN 1 ELSE 0)

NoArgsOutLines(a, z) == IF a.verbosity >= 2 /\ z < a.lower THEN 1 ELSE 0

\* ------------------------------------------------------------- actions
ZBIdle == ZBEnter(0)

Init ==
    /\ char_signed \in BOOLEAN
    /\ pc = "start"
    /\ arguments \in Garbage
    /\ nargs = 0
    /\ key = "none"
    /\ optarg = <<>>
    /\ src = "none"
    /\ zeros = 0
    /\ out = 0
    /\ err = 0
    /\ stdout_used = FALSE
    /\ stderr_used = FALSE
    /\ nscanned = 0
    /\ stdin_scans = 0
    /\ corrupted = 0
    /\ flagged = 0
    /\ clamped = FALSE
    /\ stdin_data = <<>>
    /\ argp_err = "0"
    /\ exitcode = 0
    /\ nopen = 0
    /\ open_peak = 0
    /\ alt = [arguments |-> arguments, out |-> 0, err |-> 0]
    /\ fp = <<>>
    /\ zb = ZBIdle

\* The program that clamps once: its sanity check runs in the first source
\* event that follows option events, and in no later one.
AltClamp(b) ==
    IF key \notin {"ARG", "NO_ARGS"} /\ b.lower > b.upper /\ b.upper # 0
    THEN [b EXCEPT !.lower = b.upper]
    ELSE b

\* Its call for a source holding stream: classification as in parse_opt, the
\* sanity check apart.
AltSource(stream) ==
    LET b1 == AltClamp(alt.arguments)
        r == countZB(stream, b1.upper, char_signed)
        b2 == ArgCount(b1, r.zeros)
    IN IF r.hang THEN alt
       ELSE [arguments |-> b2, out |-> ArgOutLines(b2, r.zeros),
             err |-> ArgErrLines(b2, r.zeros)]

\* Its call for any other event: the struct b and e lines on stderr.
AltOther(b, e) == alt' = [arguments |-> b, out |-> 0, err |-> e]

\* What a call that reads no source leaves in the history of the last call.
NoSource ==
    /\ src' = "none"
    /\ zeros' = 0
    /\ clamped' = FALSE
    /\ open_peak' = 0
    /\ nopen' = nopen

\* The call wrote o lines to stdout and e lines to stderr.
Wrote(o, e) ==
    /\ out' = o
    /\ err' = e
    /\ stdout_used' = (stdout_used \/ o > 0)
    /\ stderr_used' = (stderr_used \/ e > 0)

\* argp_parse's first call: key ARGP_KEY_INIT.
KeyInit ==
    /\ pc = "start"
    /\ arguments' = Defaults
    /\ AltOther(Defaults, 0)
    /\ key' = "INIT"
    /\ pc' = "parse"
    /\ UNCHANGED << char_signed, nargs, optarg, src, zeros, out, err, stdout_used,
                    stderr_used, nscanned, stdin_scans, corrupted, flagged,
                    clamped, stdin_data, argp_err, exitcode, nopen, open_peak,
                    fp, zb >>

\* key 'v'.
KeyV ==
    /\ pc = "parse"
    /\ arguments' = IncVerbosity(arguments)
    /\ AltOther(IncVerbosity(alt.arguments), 0)
    /\ key' = "v"
    /\ optarg' = <<>>
    /\ NoSource
    /\ Wrote(0, 0)
    /\ UNCHANGED << char_signed, pc, nargs, nscanned, stdin_scans, corrupted,
                    flagged, stdin_data, argp_err, exitcode, fp, zb >>

\* key 'u' with value s: returns EINVAL when the value has a tail.
KeyU ==
    /\ pc = "parse"
    /\ \E s \in OptArgs :
        /\ arguments' = SetUpper(arguments, s)
        /\ AltOther(SetUpper(alt.arguments, s), IF TailLeft(s) THEN 1 ELSE 0)
        /\ optarg' = s
        /\ IF TailLeft(s)
           THEN /\ Wrote(0, 1)
                /\ argp_err' = "EINVAL"
                /\ pc' = "error"
           ELSE /\ Wrote(0, 0)
                /\ UNCHANGED << argp_err, pc >>
    /\ key' = "u"
    /\ NoSource
    /\ UNCHANGED << char_signed, nargs, nscanned, stdin_scans, corrupted,
                    flagged, stdin_data, exitcode, fp, zb >>

\* key 'l' with value s.
KeyL ==
    /\ pc = "parse"
    /\ \E s \in OptArgs :
        /\ arguments' = SetLower(arguments, s)
        /\ AltOther(SetLower(alt.arguments, s), IF TailLeft(s) THEN 1 ELSE 0)
        /\ optarg' = s
        /\ IF TailLeft(s)
           THEN /\ Wrote(0, 1)
                /\ argp_err' = "EINVAL"
                /\ pc' = "error"
           ELSE /\ Wrote(0, 0)
                /\ UNCHANGED << argp_err, pc >>
    /\ key' = "l"
    /\ NoSource
    /\ UNCHANGED << char_signed, nargs, nscanned, stdin_scans, corrupted,
                    flagged, stdin_data, exitcode, fp, zb >>

\* key ARGP_KEY_ARG, fopen fails: one line on stderr, return 0.
KeyArgFail ==
    /\ pc = "parse"
    /\ nargs < MaxArgs
    /\ Wrote(0, 1)
    /\ nargs' = nargs + 1
    /\ key' = "ARG"
    /\ src' = "nofile"
    /\ zeros' = 0
    /\ clamped' = FALSE
    /\ optarg' = <<>>
    /\ arguments' = ArgOpenFailed(arguments)
    /\ AltOther(AltClamp(alt.arguments), 1)
    /\ nopen' = nopen
    /\ open_peak' = nopen
    /\ UNCHANGED << char_signed, pc, nscanned, stdin_scans, corrupted,
                    flagged, stdin_data, argp_err, exitcode, fp, zb >>

\* key ARGP_KEY_ARG, fopen succeeds on a file holding stream.  When countZB
\* never returns, neither does the call.
KeyArgFile ==
    /\ pc = "parse"
    /\ nargs < MaxArgs
    /\ \E stream \in Files :
        LET r == countZB(stream, arguments.upper, char_signed)
            a1 == ArgClamp(arguments)
            a2 == ArgCount(a1, r.zeros)
        IN /\ alt' = AltSource(stream)
           /\ IF r.hang
              THEN /\ pc' = "hung"
                   /\ zeros' = r.zeros
                   /\ Wrote(0, 0)
                   /\ clamped' = FALSE
                   /\ nopen' = Fopen(nopen)
                   /\ UNCHANGED << arguments, nargs, nscanned, corrupted, flagged >>
              ELSE /\ arguments' = a2
                   /\ zeros' = r.zeros
                   /\ Wrote(ArgOutLines(a2, r.zeros), ArgErrLines(a2, r.zeros))
                   /\ nscanned' = nscanned + 1
                   /\ corrupted' = corrupted + (IF r.zeros >= a2.lower THEN 1 ELSE 0)
                   /\ flagged' = flagged + (IF r.zeros > 0 THEN 1 ELSE 0)
                   /\ clamped' = (a1.lower # arguments.lower)
                   /\ nargs' = nargs + 1
                   /\ nopen' = Fclose(Fopen(nopen))
                   /\ pc' = "parse"
    /\ key' = "ARG"
    /\ src' = "file"
    /\ open_peak' = Fopen(nopen)
    /\ optarg' = <<>>
    /\ UNCHANGED << char_signed, stdin_scans, stdin_data, argp_err, exitcode,
                    fp, zb >>

\* key ARGP_KEY_NO_ARGS: all of argv parsed and no positional argument seen.
KeyNoArgs ==
    /\ pc = "parse"
    /\ NoArgsSeen
    /\ \E stream \in Files :
        /\ alt' = AltSource(stream)
        /\ LET r == countZB(stream, arguments.upper, char_signed)
               a1 == NoArgsClamp(arguments)
               a2 == NoArgsCount(a1, r.zeros)
           IN IF r.hang
              THEN /\ pc' = "hung"
                   /\ zeros' = r.zeros
                   /\ Wrote(0, 0)
                   /\ clamped' = FALSE
                   /\ UNCHANGED << arguments, nscanned, corrupted, flagged >>
              ELSE /\ arguments' = a2
                   /\ zeros' = r.zeros
                   /\ Wrote(NoArgsOutLines(a2, r.zeros), NoArgsErrLines(a2, r.zeros))
                   /\ nscanned' = nscanned + 1
                   /\ corrupted' = corrupted + (IF r.zeros >= a2.lower THEN 1 ELSE 0)
                   /\ flagged' = flagged + (IF r.zeros > 0 THEN 1 ELSE 0)
                   /\ clamped' = (a1.lower # arguments.lower)
                   /\ pc' = "end"
        /\ stdin_data' = stream
    /\ stdin_scans' = stdin_scans + 1
    /\ key' = "NO_ARGS"
    /\ src' = "stdin"
    /\ optarg' = <<>>
    /\ open_peak' = nopen
    /\ UNCHANGED << char_signed, nargs, argp_err, exitcode, nopen, fp, zb >>

\* key ARGP_KEY_ERROR, sent after a call returned EINVAL.
KeyError ==
    /\ pc = "error"
    /\ Wrote(0, 1)
    /\ key' = "ERROR"
    /\ pc' = "fini"
    /\ optarg' = <<>>
    /\ NoSource
    /\ AltOther(alt.arguments, 1)
    /\ UNCHANGED << char_signed, arguments, nargs, nscanned, stdin_scans,
                    corrupted, flagged, stdin_data, argp_err, exitcode, fp, zb >>

\* default: ARGP_KEY_END, ARGP_KEY_SUCCESS and ARGP_KEY_FINI, in argp_parse's
\* order; each returns ARGP_ERR_UNKNOWN.
KeyDefault ==
    /\ \/ pc \in {"end", "success", "fini"}
       \/ pc = "parse" /\ nargs > 0
    /\ key' = (IF pc \in {"parse", "end"} THEN "END"
               ELSE IF pc = "success" THEN "SUCCESS" ELSE "FINI")
    /\ pc' = (IF pc \in {"parse", "end"} THEN "success"
              ELSE IF pc = "success" THEN "fini" ELSE "return")
    /\ optarg' = <<>>
    /\ NoSource
    /\ Wrote(0, 0)
    /\ AltOther(alt.arguments, 0)
    /\ UNCHANGED << char_signed, arguments, nargs, nscanned, stdin_scans,
                    corrupted, flagged, stdin_data, argp_err, exitcode, fp, zb >>

\* main: argp_parse has returned, its result is dropped; return retcode.
MainReturn ==
    /\ pc = "return"
    /\ exitcode' = arguments.retcode
    /\ pc' = "done"
    /\ UNCHANGED << char_signed, arguments, nargs, key, optarg, src, zeros, out,
                    err, stdout_used, stderr_used, nscanned, stdin_scans,
                    corrupted, flagged, clamped, stdin_data, argp_err, nopen,
                    open_peak, alt, fp, zb >>

Next ==
    \/ KeyInit
    \/ KeyV
    \/ KeyU
    \/ KeyL
    \/ KeyArgFail
    \/ KeyArgFile
    \/ KeyNoArgs
    \/ KeyError
    \/ KeyDefault
    \/ MainReturn

\* parse_opt under every order of option and positional-argument events.
Spec == Init /\ [][Next]_vars

\* argp_parse as main calls it (flags 0): getopt permutes argv, so every
\* option event comes before the first positional argument.
ArgpKeyV == nargs = 0 /\ KeyV

ArgpKeyU == nargs = 0 /\ KeyU

ArgpKeyL == nargs = 0 /\ KeyL

NextArgp ==
    \/ KeyInit
    \/ ArgpKeyV
    \/ ArgpKeyU
    \/ ArgpKeyL
    \/ KeyArgFail
    \/ KeyArgFile
    \/ KeyNoArgs
    \/ KeyError
    \/ KeyDefault
    \/ MainReturn

SpecArgp == Init /\ [][NextArgp]_vars

\* ------------------------------------------------- countZB, step by step
\* A call countZB(fp, cap) on any stream with any cap, in either build.
InitZB ==
    /\ char_signed \in BOOLEAN
    /\ pc = "zb_call"
    /\ fp \in Streams
    /\ \E cap \in 0..ULONG_MAX :
        zb = [cap |-> cap, pos |-> 0, zeros |-> 0, upper |-> cap, ret |-> FALSE]
    /\ arguments = Defaults
    /\ nargs = 0
    /\ key = "none"
    /\ optarg = <<>>
    /\ src = "none"
    /\ zeros = 0
    /\ out = 0
    /\ err = 0
    /\ stdout_used = FALSE
    /\ stderr_used = FALSE
    /\ nscanned = 0
    /\ stdin_scans = 0
    /\ corrupted = 0
    /\ flagged = 0
    /\ clamped = FALSE
    /\ stdin_data = <<>>
    /\ argp_err = "0"
    /\ exitcode = 0
    /\ nopen = 0
    /\ open_peak = 0
    /\ alt = [arguments |-> Defaults, out |-> 0, err |-> 0]

drv == << arguments, nargs, key, optarg, src, zeros, out, err, stdout_used,
          stderr_used, nscanned, stdin_scans, corrupted, flagged, clamped,
          stdin_data, argp_err, exitcode, nopen, open_peak, alt >>

\* Entry: the locals, and the cap 0 replaced by ULONG_MAX.
ZBCall ==
    /\ pc = "zb_call"
    /\ zb' = ZBEnter(zb.cap)
    /\ pc' = "zb_loop"
    /\ UNCHANGED << char_signed, fp, drv >>

\* One evaluation of the while condition; the function returns when it fails.
ZBLoop ==
    /\ pc = "zb_loop"
    /\ zb' = ZBIter(fp, zb, char_signed)
    /\ pc' = (IF zb'.ret THEN "zb_ret" ELSE "zb_loop")
    /\ UNCHANGED << char_signed, fp, drv >>

NextZB == ZBCall \/ ZBLoop

SpecZB == InitZB /\ [][NextZB]_vars

\* ============================================================== claims
\* The number of zero bytes of a stream.
RECURSIVE NumZeros(_)
NumZeros(s) ==
    IF s = <<>> THEN 0 ELSE (IF Head(s) = 0 THEN 1 ELSE 0) + NumZeros(Tail(s))

\* The number of bytes up to and including the k-th zero byte of s (k >= 1, s
\* holding at least k zero bytes).
PosAfterKthZero(s, k) ==
    CHOOSE n \in 1..Len(s) : s[n] = 0 /\ NumZeros(SubSeq(s, 1, n)) = k

\* A non-negative integer literal: decimal, octal or hexadecimal.
DecDigits == {"0", "1", "2", "3", "4", "5", "6", "7", "8", "9"}

OctDigits == {"0", "1", "2", "3", "4", "5", "6", "7"}

HexDigits == DecDigits \cup {"a", "b", "c", "d", "e", "f"}

AllIn(s, S) == \A i \in 1..Len(s) : s[i] \in S

IsLiteral(s) ==
    /\ s # <<>>
    /\ \/ s[1] \in DecDigits \ {"0"} /\ AllIn(s, DecDigits)
       \/ s[1] = "0" /\ AllIn(s, OctDigits)
       \/ /\ Len(s) >= 3
          /\ s[1] = "0"
          /\ s[2] \in {"x", "X"}
          /\ AllIn(SubSeq(s, 3, Len(s)), HexDigits)

\* The last call scanned a source to the end of countZB and classified it.
Classified == key \in {"ARG", "NO_ARGS"} /\ src \in {"file", "stdin"} /\ pc # "hung"

\* C1: the value main returns is the number of processed sources whose zeros
\* are >= the effective lower bound, capped at INT_MAX.
C1_ExitCodeCountsCorrupted ==
    pc = "done" => exitcode = Min(corrupted, INT_MAX)

\* C2: with cap 0, countZB returns exactly the number of zero bytes of the
\* stream (a number unsigned long can hold), whatever its other bytes are.
C2_CapZeroCountsAll ==
    (pc = "zb_ret" /\ zb.cap = 0 /\ NumZeros(fp) <= ULONG_MAX)
        => zb.zeros = NumZeros(fp)

\* C3, as claimed: with cap > 0 on a stream holding at least cap zero bytes,
\* countZB consumes no byte beyond the cap-th zero byte.
C3_NoByteBeyondCap ==
    (pc = "zb_ret" /\ zb.cap > 0 /\ NumZeros(fp) >= zb.cap)
        => zb.pos <= PosAfterKthZero(fp, zb.cap)

\* C3, amended: countZB consumes at most one byte beyond the cap-th zero
\* byte; when the count reaches cap the position on return is one byte after
\* that zero byte, or right after it when it is the last byte of the stream.
C3_AtMostOneByteBeyondCap ==
    (pc = "zb_ret" /\ zb.cap > 0 /\ NumZeros(fp) >= zb.cap)
        => /\ zb.pos <= PosAfterKthZero(fp, zb.cap) + 1
           /\ zb.zeros <= zb.cap
           /\ zb.zeros = zb.cap
                => zb.pos = Min(Len(fp), PosAfterKthZero(fp, zb.cap) + 1)

\* C3 witness: the count reached the cap, one byte after the cap-th zero
\* byte was consumed, and bytes of the stream are left unread.
C3_Witness ==
    /\ pc = "zb_ret"
    /\ zb.cap > 0
    /\ zb.zeros = zb.cap
    /\ zb.pos = PosAfterKthZero(fp, zb.cap) + 1
    /\ zb.pos < Len(fp)

\* C4: a run in which a limit option's value was rejected ends with a
\* non-zero exit status and has scanned no source, file or stdin.
C4_RejectedLimitFailsRun ==
    (pc = "done" /\ argp_err = "EINVAL")
        => exitcode # 0 /\ nscanned = 0 /\ stdin_scans = 0

\* C5: the call for a positional argument whose file cannot be opened returns
\* success, leaves the struct and the counts of the run as they were, and
\* writes one line, to stderr; parsing goes on from the same state.
C5_OpenFailureNonFatal ==
    [][(key' = "ARG" /\ src' = "nofile")
        => /\ pc = "parse" /\ pc' = "parse"
           /\ argp_err' = argp_err
           /\ arguments' = arguments
           /\ err' = 1 /\ out' = 0
           /\ nscanned' = nscanned
           /\ flagged' = flagged
           /\ corrupted' = corrupted
           /\ stdin_scans' = stdin_scans]_vars

\* C5 witness: an open failed after a source had been flagged.
C5_Witness ==
    /\ key = "ARG" /\ src = "nofile"
    /\ pc = "parse"
    /\ arguments.retcode > 0
    /\ err = 1

\* C6: a scanned source writes no line at verbosity 0; at verbosity 1 one line
\* to stderr iff zeros >= lower; at verbosity >= 2 one line, to stdout iff
\* zeros < lower and to stderr otherwise; never more than one line.
C6_OneLinePerSource ==
    Classified =>
        LET v == arguments.verbosity
            corrupt == zeros >= arguments.lower
        IN /\ v = 0 => out = 0 /\ err = 0
           /\ v = 1 => out = 0 /\ err = (IF corrupt THEN 1 ELSE 0)
           /\ v >= 2 => out = (IF corrupt THEN 0 ELSE 1)
                        /\ err = (IF corrupt THEN 1 ELSE 0)
           /\ out + err <= 1

\* C6 witness: at verbosity >= 2 a file at or above the threshold was
\* reported, on stderr.
C6_Witness ==
    /\ Classified
    /\ src = "file"
    /\ arguments.verbosity >= 2
    /\ zeros >= arguments.lower
    /\ err = 1

C8_StdinOnceIffNoArgs ==
    pc = "done" => stdin_scans = (IF nargs = 0 THEN 1 ELSE 0)

\* C8, amended: a finished run has scanned stdin once if it had no positional
\* argument and no option value was rejected, and never otherwise; with empty
\* stdin and the default options it returns 0 and has written nothing.
C8_StdinOnceIffNoArgsNoError ==
    pc = "done"
        => /\ stdin_scans = (IF nargs = 0 /\ argp_err = "0" THEN 1 ELSE 0)
           /\ (/\ stdin_scans = 1
               /\ stdin_data = <<>>
               /\ arguments.verbosity = 0
               /\ arguments.upper = 0
               /\ arguments.lower = 1)
                => exitcode = 0 /\ ~stdout_used /\ ~stderr_used

\* C8 witness: the run without arguments on empty stdin has finished.
C8_Witness ==
    /\ pc = "done"
    /\ nargs = 0
    /\ stdin_scans = 1
    /\ stdin_data = <<>>
    /\ arguments.verbosity = 0 /\ arguments.upper = 0 /\ arguments.lower = 1
    /\ exitcode = 0

\* C9: -u and -l accept exactly the non-negative integer literals; any other
\* value is rejected with EINVAL and is not stored.
C9_OnlyLiteralsAccepted ==
    [][key' \in {"u", "l"}
        => IF IsLiteral(optarg')
           THEN pc' = "parse"
           ELSE pc' = "error" /\ argp_err' = "EINVAL" /\ arguments' = arguments]_vars

\* C10: after ARGP_KEY_INIT verbosity and retcode stay within 0..INT_MAX, and
\* a -v flag or a source with zero bytes arriving at INT_MAX leaves the field
\* at INT_MAX.
C10_Saturation ==
    [][pc' # "start"
        => /\ arguments'.verbosity \in 0..INT_MAX
           /\ arguments'.retcode \in 0..INT_MAX
           /\ (key' = "v" /\ arguments.verbosity = INT_MAX)
                => arguments'.verbosity = INT_MAX
           /\ (Classified' /\ arguments.retcode = INT_MAX)
                => arguments'.retcode = INT_MAX]_vars

\* C10 witness: more sources with zero bytes than INT_MAX were classified,
\* with verbosity at INT_MAX too.
C10_Witness ==
    /\ Classified
    /\ zeros > 0
    /\ flagged > INT_MAX
    /\ arguments.retcode = INT_MAX
    /\ arguments.verbosity = INT_MAX

C12_CountBounded ==
    pc \in {"zb_loop", "zb_ret"}
        => /\ zb.zeros <= (IF zb.cap > 0 THEN zb.cap ELSE ULONG_MAX)
           /\ zb.zeros <= NumZeros(SubSeq(fp, 1, zb.pos))
           /\ zb.zeros <= NumZeros(fp)
           /\ fp = <<>> => zb.zeros = 0

\* C12 witness: the call returned the cap on a stream holding more zero
\* bytes than the cap.
C12_Witness ==
    /\ pc = "zb_ret"
    /\ zb.cap > 0
    /\ zb.zeros = zb.cap
    /\ NumZeros(fp) > zb.cap

\* C13: a call for -u (resp. -l) that rejects its value returns EINVAL and
\* leaves upper (resp. lower) at the value it had before the call.
C13_RejectedValueNotStored ==
    [][(key' \in {"u", "l"} /\ pc' = "error")
        => /\ argp_err' = "EINVAL"
           /\ arguments'.upper = arguments.upper
           /\ arguments'.lower = arguments.lower]_vars

\* C14: at most one FILE handle opened by the program is open at any time;
\* once the call for a positional argument has returned, no handle is open,
\* also when the count stopped at the cap; a failed fopen leaves none open.
C14_HandlesClosed ==
    /\ nopen <= 1
    /\ open_peak <= 1
    /\ pc # "hung" => nopen = 0
    /\ src = "nofile" => open_peak = 0

\* C14 witness: the second file of a run was scanned, its count stopped at
\* the cap, and the call returned with no handle open.
C14_Witness ==
    /\ Classified
    /\ src = "file"
    /\ nscanned >= 2
    /\ arguments.upper > 0
    /\ zeros = arguments.upper
    /\ open_peak = 1
    /\ nopen = 0

\* C15, as claimed: in a run whose option events all precede its first
\* source event, the program that clamps once when option parsing ends
\* writes the same lines for every source, ends with the same lower and
\* returns the same exit code; and from the second scanned source on the
\* program's clamp never changes lower.
C15_OnceClampEquivalent ==
    /\ Classified => alt.out = out /\ alt.err = err
    /\ (Classified /\ nscanned >= 2) => ~clamped
    /\ pc = "done"
        => /\ alt.arguments.lower = arguments.lower
           /\ alt.arguments.retcode = exitcode

\* C15, amended: the same lines for every source and the same exit code; the
\* same lower once a source has been scanned (a run whose opens all fail
\* never runs the program's clamp); and from the second scanned source on
\* the program's clamp never changes lower.
C15_OnceClampEquivalentScanned ==
    /\ Classified
        => /\ alt.out = out /\ alt.err = err
           /\ alt.arguments = arguments
    /\ (Classified /\ nscanned >= 2) => ~clamped
    /\ pc = "done"
        => /\ nscanned >= 1 => alt.arguments.lower = arguments.lower
           /\ alt.arguments.retcode = exitcode

\* C15 witness: the options left lower above upper > 0, the first file
\* could not be opened, the next two were scanned, and the run has ended.
C15_Witness ==
    /\ pc = "done"
    /\ nargs = 3
    /\ nscanned = 2
    /\ arguments.upper > 0
    /\ arguments.lower = arguments.upper
    /\ alt.arguments.lower = arguments.lower
    /\ stderr_used

\* C16: the steps after countZB are the same function of (verbosity, upper,
\* lower, retcode, zeros) in the case for a file and in the case for stdin:
\* what the call for a file leaves in the struct and writes is what the code
\* of ARGP_KEY_NO_ARGS yields from the same struct and count, and what the
\* call for stdin leaves and writes is what the code of ARGP_KEY_ARG yields.
C16_SameClassification ==
    [][/\ (Classified' /\ src' = "file")
            => LET a2 == NoArgsCount(NoArgsClamp(arguments), zeros')
               IN /\ arguments' = a2
                  /\ out' = NoArgsOutLines(a2, zeros')
                  /\ err' = NoArgsErrLines(a2, zeros')
       /\ (Classified' /\ src' = "stdin")
            => LET a2 == ArgCount(ArgClamp(arguments), zeros')
               IN /\ arguments' = a2
                  /\ out' = ArgOutLines(a2, zeros')
                  /\ err' = ArgErrLines(a2, zeros')]_vars

\* C16 witness: stdin was classified at verbosity 1 with its count equal to
\* the lower threshold the clamp had just lowered, and reported on stderr.
C16_Witness ==
    /\ Classified
    /\ src = "stdin"
    /\ clamped
    /\ arguments.verbosity = 1
    /\ zeros = arguments.lower
    /\ arguments.retcode = 1
    /\ err = 1

\* C17: countZB returns on every stream and every cap: while the call has
\* not returned, its next step changes the frame (the position, the count or
\* the return), so at end-of-stream the loop is left; a step that changes
\* nothing is an iteration that repeats for ever.
C17_CountZBReturns ==
    pc \in {"zb_call", "zb_loop"} => ENABLED <<NextZB>>_vars

\* C18: an option or parser event touches only its own field: 'v' only
\* verbosity, 'u' only upper, 'l' only lower, ARGP_KEY_ERROR and the keys of
\* the default case no field; none of them changes retcode, opens a file,
\* reads a stream or writes to stdout.
C18_OptionFrame ==
    [][/\ key' = "v"
            => arguments' = [arguments EXCEPT !.verbosity = arguments'.verbosity]
       /\ key' = "u"
            => arguments' = [arguments EXCEPT !.upper = arguments'.upper]
       /\ key' = "l"
            => arguments' = [arguments EXCEPT !.lower = arguments'.lower]
       /\ key' \in {"ERROR", "END", "SUCCESS", "FINI"}
            => arguments' = arguments
       /\ key' \in {"v", "u", "l", "ERROR", "END", "SUCCESS", "FINI"}
            => /\ arguments'.retcode = arguments.retcode
               /\ nopen' = nopen /\ open_peak' = 0
               /\ nscanned' = nscanned /\ stdin_scans' = stdin_scans
               /\ src' = "none"
               /\ out' = 0
               /\ stdout_used' = stdout_used]_vars

\* C18 witness: an accepted -u changed upper after -l had set lower to 0 and
\* -v had brought verbosity to INT_MAX.
C18_Witness ==
    /\ key = "u"
    /\ pc = "parse"
    /\ arguments.upper > 0
    /\ arguments.lower = 0
    /\ arguments.verbosity = INT_MAX
    /\ arguments.retcode = 0

\* C19: after ARGP_KEY_INIT retcode never decreases and is at most the number
\* of sources opened, scanned and classified so far (so 0 while there is
\* none); a source event changes neither upper nor verbosity.
C19_RetcodeMonotone ==
    [][/\ pc # "start" => arguments'.retcode >= arguments.retcode
       /\ pc' # "start"
            => /\ arguments'.retcode <= nscanned'
               /\ nscanned' = 0 => arguments'.retcode = 0
       /\ key' \in {"ARG", "NO_ARGS"}
            => /\ arguments'.upper = arguments.upper
               /\ arguments'.verbosity = arguments.verbosity]_vars

\* C19 witness: under -u 1 and -v a file with a zero byte was classified
\* after one without: retcode is below the number of scanned sources.
C19_Witness ==
    /\ Classified
    /\ src = "file"
    /\ zeros > 0
    /\ nscanned = 2
    /\ arguments.retcode = 1
    /\ arguments.upper = 1
    /\ arguments.verbosity = 1

====
